---- MODULE Spec2Model ----
(***************************************************************************)
(* Verification model of the ERCOT public API client wrappers:            *)
(*   src/ercot_api/client.py    ErcotPublicDataClient                      *)
(*   src/ercot/pubapi_client.py PubApiClient                               *)
(* Each subsystem has its own specification (SpecRL, ...); the variables   *)
(* of the other subsystems stay at their initial values.                   *)
(***************************************************************************)
EXTENDS Integers, Sequences, FiniteSets, TLC

\* ---------------------------------------------------------------- bounds
NumThreads == 2
MaxCalls == 3
MaxTime == 3
MaxLimit == 2
MaxWindow == 2
MaxRequests == 2

VARIABLES
    \* ---- rate limiter (client.py:84-119)
    rate_limit_per_minute,      \* config.rate_limit_per_minute (0 = falsy / disabled)
    rate_limit_window_seconds,  \* config.rate_limit_window_seconds
    clock,                      \* time.monotonic()
    rate_limit_lock,            \* holder of _rate_limit_lock, 0 = free
    rate_limit_timestamps,      \* _rate_limit_timestamps, oldest first
    rl_pc,                      \* per thread position in _wait_for_rate_limit
    rl_now,                     \* per thread local `now`
    rl_sleep_for,               \* per thread local `sleep_for`
    rl_wake,                    \* per thread instant at which time.sleep may return
    rl_slept,                   \* per thread: the current call has slept
    rl_calls,                   \* number of calls of _wait_for_rate_limit started
    admitted,                   \* history: one record per return through line 114
    \* ---- request dispatch (client.py:49-175, pubapi_client.py:78-113)
    api_key,                    \* config.api_key (NoneV when not configured)
    api_key_in_query,           \* config.api_key_in_query
    id_token,                   \* ErcotPublicDataClient._id_token
    last_stored,                \* history: token of the latest successful store
    overwrote,                  \* history: a store has replaced a different token
    n_requests,                 \* number of transport calls made by the session
    last_request,               \* the latest transport call (session.requests[-1]),
                                \* with the caller's inputs, the stored token then,
                                \* the response status and whether the call raised
    d_result,                   \* outcome of the latest entry point call
    \* ---- PubApiClient.call (pubapi_client.py:115-149)
    call_op,                    \* operation_id argument
    call_kwargs,                \* **kwargs argument
    call_result,                \* outcome of call: kind and reported names
    \* ---- iter_report_pages (client.py:263-284)
    pg_params,                  \* params argument
    page_size,                  \* page_size argument
    max_pages,                  \* max_pages argument, <<>> for None
    pg_pc,                      \* generator: created, suspended (at yield), done, raised
    page,                       \* local page
    fetched,                    \* local fetched
    pg_data,                    \* _meta of the payload yielded last
    pg_log,                     \* history: _meta of every payload yielded
    \* ---- update_archive (client.py:286-319)
    sy_pc,                      \* start, item (top of `while not done`), finished, raised
    listing,                    \* ids
    idx,                        \* position of report_id in ids
    retry,                      \* local retry
    fs,                         \* per document id: the directory save_dir on disk
    fs0,                        \* history: fs when update_archive was called
    outcome,                    \* history: per listed item, how its while loop ended
    cur,                        \* history: the attempts of the item in progress
    settled,                    \* history: the attempts of the item that ended last
    last_attempt,               \* history: the latest pass through the try block
    \* ---- PubApiClient._index_operations (pubapi_client.py:57-73)
    ix_catalog,                 \* spec["paths"], one entry per path and key
    ix_result,                  \* what _index_operations returned or raised
    \* ---- two concurrent runs of update_archive (client.py:290-319)
    run_pc,                     \* per run: position in the body of the for loop
    run_idx,                    \* per run: position of report_id in ids
    run_retry,                  \* per run: local retry
    race_log                    \* history, per document id: the runs whose mkdir
                                \* succeeded, was refused, and that extracted

rlVars == <<rate_limit_per_minute, rate_limit_window_seconds, clock, rate_limit_lock,
            rate_limit_timestamps, rl_pc, rl_now, rl_sleep_for, rl_wake, rl_slept,
            rl_calls, admitted>>

dVars == <<api_key, api_key_in_query, id_token, last_stored, overwrote, n_requests,
           last_request, d_result>>

cVars == <<call_op, call_kwargs, call_result>>

pVars == <<pg_params, page_size, max_pages, pg_pc, page, fetched, pg_data, pg_log>>

sVars == <<sy_pc, listing, idx, retry, fs, fs0, outcome, cur, settled, last_attempt>>

iVars == <<ix_catalog, ix_result>>

uVars == <<run_pc, run_idx, run_retry, race_log>>

nonRLVars == <<dVars, cVars, pVars, sVars, iVars, uVars>>
nonDispatchVars == <<cVars, pVars, sVars, iVars, uVars>>

vars == <<rlVars, dVars, cVars, pVars, sVars, iVars, uVars>>

Threads == 1..NumThreads

\* Python None, and the truthiness test `if x:` on an optional string
NoneV == "<None>"
Truthy(x) == x # NoneV /\ x # ""

\* a dict is a function on the set of its keys; d[k] = v
EmptyDict == [k \in {} |-> NoneV]
Put(d, k, v) == [n \in (DOMAIN d) \cup {k} |-> IF n = k THEN v ELSE d[n]]
Has(d, k) == k \in DOMAIN d

\* an optional integer: <<>> is None, <<n>> is n
NoMeta == [totalPages |-> <<>>, currentPage |-> <<>>]

\* document ids, a directory that does not exist, files as (name, origin)
MaxDocs == 2
DocIds == 1..MaxDocs
NoDir == [exists |-> FALSE, files |-> {}]
NoPayload == [kind |-> "none", members |-> EmptyDict]
NoAttempt == [id |-> 0, result |-> "none", payload |-> NoPayload]
NoItem == [attempts |-> 0, dl_failed |-> 0, other_failed |-> FALSE, pre_exists |-> FALSE]
NoSettled == [i |-> 0, attempts |-> 0, dl_failed |-> 0, other_failed |-> FALSE,
              pre_exists |-> FALSE, outcome |-> "pending"]

NoCall == [kind |-> "none", names |-> {}]
NoIndex == [kind |-> "none", operations |-> EmptyDict]

NoRequest == [client |-> "none", kind |-> "none", method |-> NoneV, path |-> <<>>,
              headers |-> EmptyDict, params |-> EmptyDict, json |-> NoneV,
              data |-> NoneV, acquires |-> 0, stored |-> NoneV,
              caller_params |-> EmptyDict, caller_headers |-> EmptyDict,
              doc_ids |-> <<>>, status |-> 0, raised |-> FALSE]

\* ------------------------------------------------------------ rate limiter

\* client.py:110-111  while ts and ts[0] <= cutoff: ts.popleft()
RECURSIVE PurgeEager(_, _)
RECURSIVE Purge(_, _)
PurgeNothing(ts, cutoff) == ts
PurgeEager(ts, cutoff) ==
    IF ts # <<>> /\ ts[1] <= cutoff + 1 THEN PurgeEager(Tail(ts), cutoff) ELSE ts
Purge(ts, cutoff) ==
    IF ts # <<>> /\ ts[1] <= cutoff THEN Purge(Tail(ts), cutoff) ELSE ts

\* client.py:107  with self._rate_limit_lock: entered when no thread holds it
LockIgnored(holder) == TRUE
LockFree(holder) == holder = 0

\* client.py:112  if len(ts) < limit
CanAdmitAlways(ts, limit) == TRUE
CanAdmitOffByOne(ts, limit) == Len(ts) <= limit
CanAdmit(ts, limit) == Len(ts) < limit

\* client.py:103  if not limit or limit <= 0: return
LimitDisabled(limit) == limit <= 0

\* the dispatch state of a client that has sent nothing (client.py:82-83)
DispatchIdle ==
    /\ api_key = NoneV
    /\ api_key_in_query = FALSE
    /\ id_token = NoneV
    /\ last_stored = NoneV
    /\ overwrote = FALSE
    /\ n_requests = 0
    /\ last_request = NoRequest
    /\ d_result = "none"

\* no call of PubApiClient.call has been made
CallIdle ==
    /\ call_op = NoneV
    /\ call_kwargs = EmptyDict
    /\ call_result = NoCall

\* no generator of iter_report_pages exists
PagesIdle ==
    /\ pg_params = EmptyDict
    /\ page_size = 1000
    /\ max_pages = <<>>
    /\ pg_pc = "none"
    /\ page = 0
    /\ fetched = 0
    /\ pg_data = NoMeta
    /\ pg_log = <<>>

\* _index_operations has not been called
IndexIdle ==
    /\ ix_catalog = {}
    /\ ix_result = NoIndex

\* no two runs of update_archive are under way
Runs == {1, 2}
RunsIdle ==
    /\ run_pc = [r \in Runs |-> "none"]
    /\ run_idx = [r \in Runs |-> 0]
    /\ run_retry = [r \in Runs |-> 0]
    /\ race_log = [d \in DocIds |-> [made |-> {}, refused |-> {}, extracted |-> {}]]

\* update_archive has not been called and no directory exists
SyncIdle ==
    /\ sy_pc = "none"
    /\ listing = <<>>
    /\ idx = 0
    /\ retry = 0
    /\ fs = [d \in DocIds |-> NoDir]
    /\ fs0 = [d \in DocIds |-> NoDir]
    /\ outcome = <<>>
    /\ cur = NoItem
    /\ settled = NoSettled
    /\ last_attempt = NoAttempt

InitRL ==
    /\ rate_limit_per_minute \in 0..MaxLimit
    /\ rate_limit_window_seconds \in 1..MaxWindow
    /\ clock = 0
    /\ rate_limit_lock = 0
    /\ rate_limit_timestamps = <<>>
    /\ rl_pc = [t \in Threads |-> "idle"]
    /\ rl_now = [t \in Threads |-> 0]
    /\ rl_sleep_for = [t \in Threads |-> 0]
    /\ rl_wake = [t \in Threads |-> 0]
    /\ rl_slept = [t \in Threads |-> FALSE]
    /\ rl_calls = 0
    /\ admitted = <<>>
    /\ DispatchIdle
    /\ CallIdle
    /\ PagesIdle
    /\ SyncIdle
    /\ IndexIdle
    /\ RunsIdle

\* client.py:101-105  entry of _wait_for_rate_limit
RLCall(t) ==
    /\ rl_pc[t] = "idle"
    /\ rl_calls < MaxCalls
    /\ rl_calls' = rl_calls + 1
    /\ rl_slept' = [rl_slept EXCEPT ![t] = FALSE]
    /\ rl_pc' = [rl_pc EXCEPT ![t] =
                    IF LimitDisabled(rate_limit_per_minute) THEN "idle" ELSE "lock"]
    /\ UNCHANGED nonRLVars
    /\ UNCHANGED <<rate_limit_per_minute, rate_limit_window_seconds, clock,
                   rate_limit_lock, rate_limit_timestamps, rl_now, rl_sleep_for,
                   rl_wake, admitted>>

\* client.py:107-108  with self._rate_limit_lock: now = time.monotonic()
RLLock(t) ==
    /\ rl_pc[t] = "lock"
    /\ LockFree(rate_limit_lock)
    /\ rate_limit_lock' = t
    /\ rl_now' = [rl_now EXCEPT ![t] = clock]
    /\ rl_pc' = [rl_pc EXCEPT ![t] = "cs"]
    /\ UNCHANGED nonRLVars
    /\ UNCHANGED <<rate_limit_per_minute, rate_limit_window_seconds, clock,
                   rate_limit_timestamps, rl_sleep_for, rl_wake, rl_slept,
                   rl_calls, admitted>>

\* client.py:109-115  purge, admission check, record or compute sleep_for;
\* leaving the with block releases the lock
CriticalSection(t, history) ==
    /\ rl_pc[t] = "cs"
    /\ rate_limit_lock = t
    /\ LET cutoff == rl_now[t] - rate_limit_window_seconds
           kept == Purge(rate_limit_timestamps, cutoff)
       IN  IF CanAdmit(kept, rate_limit_per_minute)
           THEN /\ rate_limit_timestamps' = Append(kept, rl_now[t])
                /\ admitted' = IF history
                               THEN Append(admitted, [at |-> rl_now[t], thread |-> t,
                                                      slept |-> rl_slept[t]])
                               ELSE admitted
                /\ rl_pc' = [rl_pc EXCEPT ![t] = "idle"]
                /\ rl_slept' = [rl_slept EXCEPT ![t] = FALSE]
                /\ UNCHANGED rl_sleep_for
           ELSE /\ rate_limit_timestamps' = kept
                /\ rl_sleep_for' = [rl_sleep_for EXCEPT ![t] =
                        (kept[1] + rate_limit_window_seconds) - rl_now[t]]
                /\ rl_pc' = [rl_pc EXCEPT ![t] = "unlocked"]
                /\ UNCHANGED <<admitted, rl_slept>>
    /\ rate_limit_lock' = 0
    /\ UNCHANGED nonRLVars
    /\ UNCHANGED <<rate_limit_per_minute, rate_limit_window_seconds, clock,
                   rl_now, rl_wake, rl_calls>>

\* the critical section, with the admission recorded in the history
RLCritical(t) == CriticalSection(t, TRUE)

\* client.py:116-119  time.sleep(sleep_for) or time.sleep(0), outside the lock
RLSleep(t) ==
    /\ rl_pc[t] = "unlocked"
    /\ rl_wake' = [rl_wake EXCEPT ![t] =
                      IF rl_sleep_for[t] > 0 THEN clock + rl_sleep_for[t] ELSE clock]
    /\ rl_slept' = [rl_slept EXCEPT ![t] = TRUE]
    /\ rl_pc' = [rl_pc EXCEPT ![t] = "sleep"]
    /\ UNCHANGED nonRLVars
    /\ UNCHANGED <<rate_limit_per_minute, rate_limit_window_seconds, clock,
                   rate_limit_lock, rate_limit_timestamps, rl_now, rl_sleep_for,
                   rl_calls, admitted>>

\* time.sleep returns no earlier than the requested duration; back to line 106,
\* where the next pass computes sleep_for afresh
RLWake(t) ==
    /\ rl_pc[t] = "sleep"
    /\ clock >= rl_wake[t]
    /\ rl_pc' = [rl_pc EXCEPT ![t] = "lock"]
    /\ rl_sleep_for' = [rl_sleep_for EXCEPT ![t] = 0]
    /\ rl_wake' = [rl_wake EXCEPT ![t] = 0]
    /\ UNCHANGED nonRLVars
    /\ UNCHANGED <<rate_limit_per_minute, rate_limit_window_seconds, clock,
                   rate_limit_lock, rate_limit_timestamps, rl_now,
                   rl_slept, rl_calls, admitted>>

\* the monotonic clock advances
Tick ==
    /\ clock < MaxTime
    /\ clock' = clock + 1
    /\ UNCHANGED nonRLVars
    /\ UNCHANGED <<rate_limit_per_minute, rate_limit_window_seconds,
                   rate_limit_lock, rate_limit_timestamps, rl_pc, rl_now,
                   rl_sleep_for, rl_wake, rl_slept, rl_calls, admitted>>

NextRL ==
    \/ \E t \in Threads : RLCall(t)
    \/ \E t \in Threads : RLLock(t)
    \/ \E t \in Threads : RLCritical(t)
    \/ \E t \in Threads : RLSleep(t)
    \/ \E t \in Threads : RLWake(t)
    \/ Tick

SpecRL == InitRL /\ [][NextRL]_vars

\* C1: with maxRequests = N > 0 and window W, for every instant t the number
\* of admissions whose recorded instant lies in the trailing window (t-W, t]
\* is at most N, in every interleaving of the threads.
C1_WindowNeverExceeded ==
    rate_limit_per_minute > 0 =>
        \A t \in 0..(MaxTime + 1) :
            Cardinality({i \in DOMAIN admitted :
                            /\ admitted[i].at > t - rate_limit_window_seconds
                            /\ admitted[i].at <= t}) <= rate_limit_per_minute

\* C1 witness: more admissions than the limit have happened, one of them by a
\* thread that had to sleep, and two threads were admitted.
C1_Witness ==
    /\ rate_limit_per_minute > 0
    /\ Len(admitted) > rate_limit_per_minute
    /\ \E i \in DOMAIN admitted : admitted[i].slept
    /\ \E i, j \in DOMAIN admitted : admitted[i].thread # admitted[j].thread

\* C2: from an empty window the first N admissions return without sleeping,
\* and the (N+1)th is recorded at least W after the instant of the 1st.
C2_FirstNFreeThenWait ==
    rate_limit_per_minute > 0 =>
        /\ \A i \in DOMAIN admitted :
              i <= rate_limit_per_minute => ~admitted[i].slept
        /\ Len(admitted) > rate_limit_per_minute =>
              admitted[rate_limit_per_minute + 1].at - admitted[1].at
                  >= rate_limit_window_seconds

\* C2 witness: N admissions at one instant, then the (N+1)th after a sleep.
C2_Witness ==
    /\ rate_limit_per_minute > 1
    /\ Len(admitted) = rate_limit_per_minute + 1
    /\ \A i \in 1..rate_limit_per_minute : admitted[i].at = admitted[1].at
    /\ admitted[rate_limit_per_minute + 1].slept

\* C14: in every reachable state, whatever the interleaving of the threads,
\* the recorded timestamp sequence has at most maxRequests entries.
C14_TimestampsAtMostLimit ==
    Len(rate_limit_timestamps) <= rate_limit_per_minute

\* C14 witness: the sequence is full, two threads have been admitted and a
\* third call has been refused and is waiting.
C14_Witness ==
    /\ rate_limit_per_minute = MaxLimit
    /\ Len(rate_limit_timestamps) = rate_limit_per_minute
    /\ \E i, j \in DOMAIN admitted : admitted[i].thread # admitted[j].thread
    /\ \E t \in Threads : rl_pc[t] = "sleep"

\* the lock is held by exactly the thread inside the with block
HolderIsInCriticalSection ==
    /\ \A t \in Threads : (rl_pc[t] = "cs") <=> (rate_limit_lock = t)
    /\ rate_limit_lock \in {0} \cup Threads

\* a step that changes the timestamp sequence or records an admission is the
\* step of the thread that holds the lock, and every thread that was inside
\* the with block before the step and is not the one stepping stays inside
OnlyHolderTouchesTimestamps ==
    (rate_limit_timestamps' # rate_limit_timestamps \/ admitted' # admitted) =>
        /\ rate_limit_lock \in Threads
        /\ rl_pc[rate_limit_lock] = "cs"
        /\ rl_pc'[rate_limit_lock] # "cs"
        /\ rl_now' = rl_now
        /\ \A u \in Threads \ {rate_limit_lock} : rl_pc'[u] = rl_pc[u]

\* C15: purge, admission check and recording of one attempt form one critical
\* section under the lock (no other thread's purge, check or record falls
\* between a thread's entry into the with block and its leaving it), and no
\* thread holds the lock while it sleeps or waits for the window to free up.
C15_CriticalSectionNoSleepUnderLock ==
    /\ [](HolderIsInCriticalSection
            /\ \A t \in Threads :
                  rl_pc[t] \in {"unlocked", "sleep"} => rate_limit_lock # t)
    /\ [][OnlyHolderTouchesTimestamps]_vars

\* C15 witness: one thread sleeps after being refused while another thread is
\* inside the critical section.
C15_Witness ==
    \E t, u \in Threads :
        /\ rl_pc[t] = "sleep"
        /\ rl_pc[u] = "cs"
        /\ rate_limit_lock = u
        /\ rl_sleep_for[t] > 0

\* ------------------------------------------- rate limiter, unbounded runs

\* The threads call _wait_for_rate_limit for ever.  Instants are kept relative
\* to the present: clock stays 0, a tick moves every recorded timestamp and
\* every wake-up instant one unit into the past.  A timestamp a whole window
\* old is purged by every later attempt and is kept at that age.
InitRLLive ==
    /\ InitRL
    /\ rate_limit_per_minute \in {1, 2}
    /\ rate_limit_window_seconds \in {1, 2}

\* client.py:101-105  entry of _wait_for_rate_limit with a positive limit
LiveCall(t) ==
    /\ rl_pc[t] = "idle"
    /\ ~LimitDisabled(rate_limit_per_minute)
    /\ rl_slept' = [rl_slept EXCEPT ![t] = FALSE]
    /\ rl_pc' = [rl_pc EXCEPT ![t] = "lock"]
    /\ UNCHANGED nonRLVars
    /\ UNCHANGED <<rate_limit_per_minute, rate_limit_window_seconds, clock,
                   rate_limit_lock, rate_limit_timestamps, rl_now, rl_sleep_for,
                   rl_wake, rl_calls, admitted>>

\* client.py:109-115  the critical section, no history kept
LiveCritical(t) == CriticalSection(t, FALSE)

\* the monotonic clock advances by one unit; the critical section, which
\* only computes, takes less than that
ShiftTick ==
    /\ rate_limit_lock = 0
    /\ LET Older(x, floor) == IF x - 1 < floor THEN floor ELSE x - 1
       IN  /\ rate_limit_timestamps' =
                 [i \in DOMAIN rate_limit_timestamps |->
                     Older(rate_limit_timestamps[i], 0 - rate_limit_window_seconds)]
           /\ rl_wake' = [t \in Threads |->
                 IF rl_pc[t] = "sleep" THEN Older(rl_wake[t], 0) ELSE rl_wake[t]]
    /\ UNCHANGED nonRLVars
    /\ UNCHANGED <<rate_limit_per_minute, rate_limit_window_seconds, clock,
                   rate_limit_lock, rl_pc, rl_now, rl_sleep_for, rl_slept,
                   rl_calls, admitted>>

NextRLLive ==
    \/ \E t \in Threads : LiveCall(t)
    \/ \E t \in Threads : RLLock(t)
    \/ \E t \in Threads : LiveCritical(t)
    \/ \E t \in Threads : RLSleep(t)
    \/ \E t \in Threads : RLWake(t)
    \/ ShiftTick

\* time keeps advancing, every thread keeps running, and a thread that finds
\* the mutex free again and again eventually gets it
FairRL ==
    /\ WF_vars(ShiftTick)
    /\ \A t \in Threads :
          /\ SF_vars(RLLock(t))
          /\ WF_vars(LiveCritical(t))
          /\ WF_vars(RLSleep(t))
          /\ WF_vars(RLWake(t))

SpecRLLive == InitRLLive /\ [][NextRLLive]_vars /\ FairRL

\* thread t is inside a call of _wait_for_rate_limit
Acquiring(t) == rl_pc[t] # "idle"

\* C24 as stated: with a positive limit and window, advancing time and fair
\* scheduling of the threads and of the mutex, every acquire call eventually
\* returns, whatever the other threads do.
C24_EveryAcquireReturns ==
    \A t \in Threads : Acquiring(t) ~> ~Acquiring(t)

\* C24 amended: under the same assumptions no deadlock on the mutex is
\* reachable (the mutex is held only by a thread in the middle of its critical
\* section, which never waits), and an acquire call eventually returns if from
\* some point on no other thread is inside an acquire call.
C24_AcquireReturnsOnceOthersStop ==
    /\ [](HolderIsInCriticalSection)
    /\ \A t \in Threads :
          (<>[](\A u \in Threads \ {t} : ~Acquiring(u)))
              => (Acquiring(t) ~> ~Acquiring(t))

\* C24 witness: a thread that has already slept once is refused again, the
\* window having been filled in the meantime by another thread, which is back
\* outside the limiter.
C24_Witness ==
    \E t, u \in Threads :
        /\ t # u
        /\ rl_pc[t] = "unlocked"
        /\ rl_slept[t]
        /\ rl_sleep_for[t] > 0
        /\ rl_pc[u] = "idle"
        /\ Len(rate_limit_timestamps) = rate_limit_per_minute

\* ------------------------------------------------------- request dispatch

\* the limiter state the single-threaded entry points leave untouched
rlThreadVars == <<rate_limit_lock, rl_pc, rl_now, rl_sleep_for, rl_wake, rl_slept,
                  rl_calls, admitted>>

ApiKeys == {NoneV, "", "abc123"}
Tokens == {"", "tok123", "tok456"}
Statuses == {101, 200, 302, 404, 500}
\* the two outcomes of raise_for_status, for the entry points whose behaviour
\* does not depend on the status otherwise
DispatchStatuses == {200, 404}

\* caller supplied query parameters and extra headers
CallerParams ==
    {EmptyDict, [k \in {"page"} |-> "0"], [k \in {"subscription-key"} |-> "other"],
     [k \in {"page", "subscription-key"} |-> IF k = "page" THEN "0" ELSE "other"]}
CallerHeaders ==
    {EmptyDict, [k \in {"Ocp-Apim-Subscription-Key"} |-> "other"]}

\* the entry points of client.py:178-212 as (method, path, json) of _request:
\* get_version and download_bundle
ErcotCalls ==
    {[method |-> "GET", path |-> <<"version">>, json |-> NoneV],
     [method |-> "POST", path |-> <<"bundle", "np4-33-cd", "download">>,
      json |-> "docIds"]}

\* client.py:92  f"Bearer {self._id_token}"
Bearer(t) ==
    CASE t = "tok123" -> "Bearer tok123"
      [] t = "tok456" -> "Bearer tok456"
      [] OTHER -> "Bearer "

\* client.py:87-93  ErcotPublicDataClient._headers
ErcotHeadersNoBearer(key, in_query, token) ==
    IF Truthy(key) /\ ~in_query
    THEN Put(EmptyDict, "Ocp-Apim-Subscription-Key", key) ELSE EmptyDict
ErcotHeaders(key, in_query, token) ==
    LET h1 == IF Truthy(key) /\ ~in_query
              THEN Put(EmptyDict, "Ocp-Apim-Subscription-Key", key) ELSE EmptyDict
    IN  IF Truthy(token) THEN Put(h1, "Authorization", Bearer(token)) ELSE h1

\* pubapi_client.py:78-82  PubApiClient._headers
PubApiHeaders(extra, key, in_query) ==
    IF Truthy(key) /\ ~in_query
    THEN Put(extra, "Ocp-Apim-Subscription-Key", key) ELSE extra

\* client.py:95-99 and pubapi_client.py:84-88  _query_api_key
QueryApiKeyAlways(params, key, in_query) ==
    IF Truthy(key) THEN Put(params, "subscription-key", key) ELSE params
QueryApiKey(params, key, in_query) ==
    IF Truthy(key) /\ in_query THEN Put(params, "subscription-key", key) ELSE params

\* requests.Response.raise_for_status (test_client.py:17-19 for the fake)
RaisesForStatus(status) == status >= 400

\* client.py:101-119 run to completion by a single thread starting at instant
\* now: the timestamps and the clock when _wait_for_rate_limit returns
RECURSIVE WaitForRateLimit(_, _, _, _)
WaitForRateLimit(ts, now, limit, window) ==
    IF LimitDisabled(limit) THEN [ts |-> ts, clock |-> now, acquires |-> 0]
    ELSE LET kept == Purge(ts, now - window)
         IN  IF CanAdmit(kept, limit)
             THEN [ts |-> Append(kept, now), clock |-> now, acquires |-> 1]
             ELSE WaitForRateLimit(kept, now + ((kept[1] + window) - now),
                                   limit, window)

InitDispatch ==
    /\ rate_limit_per_minute \in 0..MaxLimit
    /\ rate_limit_window_seconds \in 1..MaxWindow
    /\ clock = 0
    /\ rate_limit_lock = 0
    /\ rate_limit_timestamps = <<>>
    /\ rl_pc = [t \in Threads |-> "idle"]
    /\ rl_now = [t \in Threads |-> 0]
    /\ rl_sleep_for = [t \in Threads |-> 0]
    /\ rl_wake = [t \in Threads |-> 0]
    /\ rl_slept = [t \in Threads |-> FALSE]
    /\ rl_calls = 0
    /\ admitted = <<>>
    /\ api_key \in ApiKeys
    /\ api_key_in_query \in BOOLEAN
    /\ id_token = NoneV
    /\ last_stored = NoneV
    /\ overwrote = FALSE
    /\ n_requests = 0
    /\ last_request = NoRequest
    /\ d_result = "none"
    /\ CallIdle
    /\ PagesIdle
    /\ SyncIdle
    /\ IndexIdle
    /\ RunsIdle

\* client.py:121-135  ErcotPublicDataClient._request: the rate limiter is
\* passed, the request is sent and the status decides between return and raise
RequestEffect(method, path, params, json, doc_ids, status) ==
    /\ LET w == WaitForRateLimit(rate_limit_timestamps, clock,
                                 rate_limit_per_minute, rate_limit_window_seconds)
       IN  /\ rate_limit_timestamps' = w.ts
           /\ clock' = w.clock
           /\ last_request' =
                 [client |-> "ercot", kind |-> "api", method |-> method,
                  path |-> path, json |-> json, data |-> NoneV,
                  headers |-> ErcotHeaders(api_key, api_key_in_query, id_token),
                  params |-> QueryApiKey(params, api_key, api_key_in_query),
                  acquires |-> w.acquires, stored |-> last_stored,
                  caller_params |-> params, caller_headers |-> EmptyDict,
                  doc_ids |-> doc_ids, status |-> status,
                  raised |-> RaisesForStatus(status)]
    /\ n_requests' = n_requests + 1
    /\ d_result' = IF RaisesForStatus(status) THEN "HTTPError" ELSE "ok"
    /\ UNCHANGED <<rate_limit_per_minute, rate_limit_window_seconds, rlThreadVars,
                   api_key, api_key_in_query, id_token, last_stored, overwrote>>

\* an entry point of client.py:178-212 that makes one call of _request
ErcotRequest(method, path, params, json, status) ==
    /\ n_requests < MaxRequests
    /\ RequestEffect(method, path, params, json, <<>>, status)
    /\ UNCHANGED nonDispatchVars

\* client.py:153-159  self._id_token = token is reached only after
\* raise_for_status and the test of the token have let the call through
StoresTokenAnyStatus(status, tok) == Truthy(tok)
StoresToken(status, tok) == ~RaisesForStatus(status) /\ Truthy(tok)

\* client.py:137-160  ErcotPublicDataClient.authenticate; tok is the id_token
\* field of the response JSON (NoneV when the field is absent)
Authenticate(status, tok) ==
    /\ n_requests < MaxRequests
    /\ n_requests' = n_requests + 1
    /\ last_request' =
          [client |-> "ercot", kind |-> "token", method |-> "POST",
           path |-> <<"token">>, json |-> NoneV, data |-> NoneV,
           headers |-> Put(EmptyDict, "Content-Type", "application/x-www-form-urlencoded"),
           params |-> EmptyDict, acquires |-> 0, stored |-> last_stored,
           caller_params |-> EmptyDict, caller_headers |-> EmptyDict,
           doc_ids |-> <<>>, status |-> status,
           raised |-> RaisesForStatus(status)]
    /\ d_result' = IF RaisesForStatus(status) THEN "HTTPError"
                   ELSE IF ~Truthy(tok) THEN "RuntimeError" ELSE "ok"
    /\ IF StoresToken(status, tok)
       THEN /\ id_token' = tok
            /\ last_stored' = IF d_result' = "ok" THEN tok ELSE last_stored
            /\ overwrote' = (overwrote \/ (last_stored # NoneV /\ last_stored # tok))
       ELSE UNCHANGED <<id_token, last_stored, overwrote>>
    /\ UNCHANGED <<rlVars, api_key, api_key_in_query>>
    /\ UNCHANGED nonDispatchVars

\* client.py:162-164  ErcotPublicDataClient.set_id_token
SetIdToken(tok) ==
    /\ id_token' = tok
    /\ last_stored' = tok
    /\ overwrote' = (overwrote \/ (last_stored # NoneV /\ last_stored # tok))
    /\ d_result' = "ok"
    /\ UNCHANGED <<rlVars, api_key, api_key_in_query, n_requests, last_request>>
    /\ UNCHANGED nonDispatchVars

\* pubapi_client.py:90-113  PubApiClient.request
PubApiRequest(method, path, params, headers, json_body, data, status) ==
    /\ n_requests < MaxRequests
    /\ n_requests' = n_requests + 1
    /\ last_request' =
          [client |-> "pubapi", kind |-> "api", method |-> method,
           path |-> path, json |-> json_body, data |-> data,
           headers |-> PubApiHeaders(headers, api_key, api_key_in_query),
           params |-> QueryApiKey(params, api_key, api_key_in_query),
           acquires |-> 0, stored |-> NoneV,
           caller_params |-> params, caller_headers |-> headers,
           doc_ids |-> <<>>, status |-> status,
           raised |-> RaisesForStatus(status)]
    /\ d_result' = IF RaisesForStatus(status) THEN "HTTPError" ELSE "ok"
    /\ UNCHANGED <<rlVars, api_key, api_key_in_query, id_token, last_stored,
                   overwrote>>
    /\ UNCHANGED nonDispatchVars

NextDispatch ==
    \/ \E e \in ErcotCalls, p \in CallerParams, st \in DispatchStatuses :
          ErcotRequest(e.method, e.path, p, e.json, st)
    \/ \E st \in DispatchStatuses, tok \in Tokens \cup {NoneV} : Authenticate(st, tok)
    \/ \E tok \in Tokens : SetIdToken(tok)
    \/ \E p \in CallerParams, h \in CallerHeaders, st \in DispatchStatuses :
          PubApiRequest("GET", <<"version">>, p, h, NoneV, NoneV, st)

SpecDispatch == InitDispatch /\ [][NextDispatch]_vars

\* the request entry points of both clients answered with any status
NextResponse ==
    \/ \E e \in ErcotCalls, st \in Statuses :
          ErcotRequest(e.method, e.path, EmptyDict, e.json, st)
    \/ \E h \in CallerHeaders, st \in Statuses :
          PubApiRequest("GET", <<"version">>, EmptyDict, h, NoneV, NoneV, st)

SpecResponse == InitDispatch /\ [][NextResponse]_vars

IsApiRequest(r) == r.kind = "api"

\* C3 as stated: whatever the caller supplies, header mode sends the
\* subscription header and no subscription-key query parameter, and query
\* mode sends the query parameter and no subscription header.
C3_KeyInExactlyOnePlace ==
    (IsApiRequest(last_request) /\ Truthy(api_key)) =>
        IF api_key_in_query
        THEN /\ Has(last_request.params, "subscription-key")
             /\ last_request.params["subscription-key"] = api_key
             /\ ~Has(last_request.headers, "Ocp-Apim-Subscription-Key")
        ELSE /\ Has(last_request.headers, "Ocp-Apim-Subscription-Key")
             /\ last_request.headers["Ocp-Apim-Subscription-Key"] = api_key
             /\ ~Has(last_request.params, "subscription-key")

\* C3 (amended): the client places the configured key in exactly one place
\* and adds nothing in the other: in header mode the subscription header is
\* the configured key and the query is exactly the caller's parameters; in
\* query mode subscription-key is the configured key and the only other
\* headers are the caller's (so the other carrier is present only when the
\* caller supplied it, with the caller's value).
C3_ClientAddsKeyInOnePlace ==
    (IsApiRequest(last_request) /\ Truthy(api_key)) =>
        IF api_key_in_query
        THEN /\ Has(last_request.params, "subscription-key")
             /\ last_request.params["subscription-key"] = api_key
             /\ \A h \in DOMAIN last_request.headers :
                   h = "Ocp-Apim-Subscription-Key" =>
                       /\ Has(last_request.caller_headers, h)
                       /\ last_request.headers[h] = last_request.caller_headers[h]
        ELSE /\ Has(last_request.headers, "Ocp-Apim-Subscription-Key")
             /\ last_request.headers["Ocp-Apim-Subscription-Key"] = api_key
             /\ last_request.params = last_request.caller_params

\* C3 witness: both modes have dispatched a request whose caller supplied the
\* carrier of the other mode.
C3_Witness ==
    /\ IsApiRequest(last_request)
    /\ Truthy(api_key)
    /\ \/ ~api_key_in_query /\ Has(last_request.caller_params, "subscription-key")
       \/ /\ api_key_in_query
          /\ Has(last_request.caller_headers, "Ocp-Apim-Subscription-Key")
          /\ Has(last_request.caller_params, "subscription-key")

IsErcotApiRequest(r) == r.kind = "api" /\ r.client = "ercot"

\* C4 as stated: a request dispatched by _request carries Authorization:
\* Bearer <t> for the token t most recently stored by authenticate or
\* set_id_token, and no Authorization header before any token is stored.
C4_BearerIsLatestStored ==
    IsErcotApiRequest(last_request) =>
        IF last_request.stored = NoneV
        THEN ~Has(last_request.headers, "Authorization")
        ELSE /\ Has(last_request.headers, "Authorization")
             /\ last_request.headers["Authorization"] = Bearer(last_request.stored)

\* C4 (amended): as C4 when the most recently stored token is non-empty; when
\* nothing or the empty string was stored last, no Authorization header is sent.
C4_BearerIsLatestNonEmptyStored ==
    IsErcotApiRequest(last_request) =>
        IF ~Truthy(last_request.stored)
        THEN ~Has(last_request.headers, "Authorization")
        ELSE /\ Has(last_request.headers, "Authorization")
             /\ last_request.headers["Authorization"] = Bearer(last_request.stored)

\* C4 witness: a request dispatched after authenticate stored a token that
\* overwrote a different, earlier stored one.
C4_Witness ==
    /\ IsErcotApiRequest(last_request)
    /\ last_request.stored = "tok456"
    /\ last_request.stored = last_stored
    /\ overwrote
    /\ Has(last_request.headers, "Authorization")

\* C11: with a limit configured, every transport call made by an entry point
\* (_request, PubApiClient.request, the token POST of authenticate) was
\* preceded in the same invocation by exactly one completed acquire of the
\* limiter.
C11_EveryTransportCallAcquires ==
    (last_request.kind # "none" /\ ~LimitDisabled(rate_limit_per_minute)) =>
        last_request.acquires = 1

\* the part of C11 that the code keeps: the calls made through _request
AcquireBeforeErcotRequest ==
    (IsErcotApiRequest(last_request) /\ ~LimitDisabled(rate_limit_per_minute)) =>
        /\ last_request.acquires = 1
        /\ rate_limit_timestamps # <<>>

\* a step in which authenticate was called and failed
AuthenticateFailed ==
    /\ n_requests' = n_requests + 1
    /\ last_request'.kind = "token"
    /\ d_result' \in {"HTTPError", "RuntimeError"}

\* C23: a failed authenticate (error status, or no non-empty id_token in the
\* response) leaves the stored token as it was, so the headers built for the
\* requests that follow are those that would have been built before the call;
\* the stored token is always the one of the latest successful store.
C23_FailedAuthenticateKeepsToken ==
    /\ [](id_token = last_stored)
    /\ [][AuthenticateFailed =>
             /\ id_token' = id_token
             /\ ErcotHeaders(api_key', api_key_in_query', id_token')
                   = ErcotHeaders(api_key, api_key_in_query, id_token)]_vars

\* C23 witness: with a token stored, authenticate has just failed on an error
\* status and the token is still the stored one.
C23_Witness ==
    /\ last_request.kind = "token"
    /\ last_request.raised
    /\ d_result = "HTTPError"
    /\ last_request.stored = "tok123"
    /\ id_token = "tok123"
    /\ Has(ErcotHeaders(api_key, api_key_in_query, id_token), "Authorization")

\* a response status outside 200..299
NonSuccess(status) == status < 200 \/ status > 299

\* C12: a request answered with a status outside 200..299 (1xx, 3xx, 4xx or
\* 5xx) fails with the HTTP error instead of returning the response.
C12_NonSuccessRaises ==
    (IsApiRequest(last_request) /\ NonSuccess(last_request.status)) =>
        last_request.raised

\* the part of C12 that the code keeps: statuses from 400 up raise, after the
\* one transport call of the invocation
ClientAndServerErrorsRaise ==
    (IsApiRequest(last_request) /\ last_request.status >= 400) =>
        last_request.raised

\* ------------------------------------------------------ PubApiClient.call

\* the operation catalog (api-specs/pubapi/pubapi-apim-api.json, loaded at
\* pubapi_client.py:40-41), one record per path and method entry
ApiSpec ==
    {[path |-> <<"version">>, method |-> "get", operationId |-> "getVersion",
      parameters |-> {}, requestBody |-> FALSE],
     [path |-> <<"archive", "{emilId}">>, method |-> "get",
      operationId |-> "getEmilId",
      parameters |-> {[name |-> "emilId", in |-> "path"],
                      [name |-> "page", in |-> "query"],
                      [name |-> "X-Trace", in |-> "header"]},
      requestBody |-> FALSE],
     [path |-> <<"archive", "{emilId}", "{docId}">>, method |-> "get",
      operationId |-> "getDoc",
      parameters |-> {[name |-> "emilId", in |-> "path"],
                      [name |-> "docId", in |-> "path"],
                      [name |-> "page", in |-> "query"]},
      requestBody |-> FALSE],
     [path |-> <<"archive", "{emilId}", "download">>, method |-> "post",
      operationId |-> "postDownload",
      parameters |-> {[name |-> "emilId", in |-> "path"],
                      [name |-> "X-Trace", in |-> "header"]},
      requestBody |-> TRUE],
     [path |-> <<"archive", "{emilId}">>, method |-> "x-ms-meta",
      operationId |-> "extension", parameters |-> {}, requestBody |-> FALSE],
     [path |-> <<"status">>, method |-> "get", operationId |-> NoneV,
      parameters |-> {}, requestBody |-> FALSE]}

\* pubapi_client.py:62  method.startswith("x-")
IsExtension(method) == method = "x-ms-meta"

\* pubapi_client.py:68  method.upper()
Upper(method) ==
    CASE method = "get" -> "GET" [] method = "post" -> "POST" [] OTHER -> method

\* pubapi_client.py:57-73  PubApiClient._index_operations: the entries that
\* are indexed, and the record stored under an operation id
IndexedEntries(spec) ==
    {e \in spec : ~IsExtension(e.method) /\ Truthy(e.operationId)}
IndexOperations(spec) ==
    [id \in {e.operationId : e \in IndexedEntries(spec)} |->
        LET e == CHOOSE x \in IndexedEntries(spec) : x.operationId = id
        IN  [method |-> Upper(e.method), path |-> e.path,
             parameters |-> e.parameters, requestBody |-> e.requestBody]]

\* pubapi_client.py:54  self._operations
Operations == IndexOperations(ApiSpec)

\* dict.pop(k, None) and removal of a set of keys
PopValue(d, k) == IF Has(d, k) THEN d[k] ELSE NoneV
Remove(d, ks) == [n \in (DOMAIN d) \ ks |-> d[n]]
Restrict(d, ks) == [n \in (DOMAIN d) \cap ks |-> d[n]]

\* pubapi_client.py:120-122  names of the parameters declared at a location
ParamNames(op, loc) == {q.name : q \in {x \in op.parameters : x.in = loc}}

\* pubapi_client.py:124  missing = [name for name in path_params if name not in kwargs]
MissingAllPath(path_params, kwargs) ==
    IF path_params \ (DOMAIN kwargs) # {} THEN path_params ELSE {}
Missing(path_params, kwargs) == path_params \ (DOMAIN kwargs)

\* pubapi_client.py:134  the condition under which "body" is popped
TakesBodyAlways(op, json_body, data) == TRUE
TakesBody(op, json_body, data) ==
    op.requestBody /\ json_body = NoneV /\ data = NoneV

\* pubapi_client.py:141  op["path"].format(**path_values)
FormatPath(template, path_values) ==
    [i \in DOMAIN template |->
        CASE template[i] = "{emilId}" -> path_values["emilId"]
          [] template[i] = "{docId}" -> path_values["docId"]
          [] OTHER -> template[i]]

\* pubapi_client.py:116-142  self.request is reached only when none of the
\* three raise statements before it was taken
ReachesRequestUnchecked(kind) == kind \in {"request", "UnexpectedParameter"}
ReachesRequest(kind) == kind = "request"

\* pubapi_client.py:115-149  PubApiClient.call up to the call of self.request:
\* the error raised, and the arguments built for self.request once every path
\* parameter is there
CallOutcome(op_id, kwargs) ==
    IF op_id \notin DOMAIN Operations
    THEN [kind |-> "KeyError", names |-> {}]
    ELSE
    LET op == Operations[op_id]
        path_params == ParamNames(op, "path")
        query_params == ParamNames(op, "query")
        header_params == ParamNames(op, "header")
        missing == Missing(path_params, kwargs)
        path_values == Restrict(kwargs, path_params)
        k1 == Remove(kwargs, path_params)
        query == Restrict(k1, query_params)
        k2 == Remove(k1, query_params)
        headers == Restrict(k2, header_params)
        k3 == Remove(k2, header_params)
        json0 == PopValue(k3, "json")
        k4 == Remove(k3, {"json"})
        data == PopValue(k4, "data")
        k5 == Remove(k4, {"data"})
        takes == TakesBody(op, json0, data)
        json_body == IF takes THEN PopValue(k5, "body") ELSE json0
        k6 == IF takes THEN Remove(k5, {"body"}) ELSE k5
    IN  IF missing # {}
        THEN [kind |-> "MissingParameter", names |-> missing]
        ELSE [kind |-> IF DOMAIN k6 # {} THEN "UnexpectedParameter" ELSE "request",
              names |-> DOMAIN k6, method |-> op.method,
              path |-> FormatPath(op.path, path_values), params |-> query,
              headers |-> headers, json_body |-> json_body, data |-> data]

\* the argument names a caller may pass, and the keyword mappings built from them
PlainNames == {"emilId", "docId", "page", "X-Trace", "foo", "bar"}
Carriers == {"json", "data", "body"}
Absent == "<absent>"
MkKwargs(plain, carried) ==
    [n \in plain \cup {c \in Carriers : carried[c] # Absent} |->
        IF n \in Carriers THEN carried[n] ELSE "v"]
KwargsSet ==
    {MkKwargs(plain, carried) :
        plain \in SUBSET PlainNames, carried \in [Carriers -> {Absent, NoneV, "v"}]}
OpIds == {e.operationId : e \in {x \in ApiSpec : x.operationId # NoneV}}
             \cup {"noSuchOperation"}

InitCall ==
    /\ rate_limit_per_minute = 0
    /\ rate_limit_window_seconds = 1
    /\ clock = 0
    /\ rate_limit_lock = 0
    /\ rate_limit_timestamps = <<>>
    /\ rl_pc = [t \in Threads |-> "idle"]
    /\ rl_now = [t \in Threads |-> 0]
    /\ rl_sleep_for = [t \in Threads |-> 0]
    /\ rl_wake = [t \in Threads |-> 0]
    /\ rl_slept = [t \in Threads |-> FALSE]
    /\ rl_calls = 0
    /\ admitted = <<>>
    /\ api_key \in ApiKeys
    /\ api_key_in_query \in BOOLEAN
    /\ id_token = NoneV
    /\ last_stored = NoneV
    /\ overwrote = FALSE
    /\ n_requests = 0
    /\ last_request = NoRequest
    /\ d_result = "none"
    /\ call_op \in OpIds
    /\ call_kwargs \in KwargsSet
    /\ call_result = NoCall
    /\ PagesIdle
    /\ SyncIdle
    /\ IndexIdle
    /\ RunsIdle

\* pubapi_client.py:115-149  PubApiClient.call, with the request it sends
\* through PubApiClient.request (pubapi_client.py:90-113)
PubApiCall(status) ==
    /\ call_result = NoCall
    /\ LET out == CallOutcome(call_op, call_kwargs)
       IN  /\ call_result' = [kind |-> out.kind, names |-> out.names]
           /\ IF ReachesRequest(out.kind)
              THEN /\ n_requests' = n_requests + 1
                   /\ last_request' =
                         [client |-> "pubapi", kind |-> "api", method |-> out.method,
                          path |-> out.path, json |-> out.json_body,
                          data |-> out.data,
                          headers |-> PubApiHeaders(out.headers, api_key,
                                                    api_key_in_query),
                          params |-> QueryApiKey(out.params, api_key,
                                                 api_key_in_query),
                          acquires |-> 0, stored |-> NoneV,
                          caller_params |-> out.params,
                          caller_headers |-> out.headers, doc_ids |-> <<>>,
                          status |-> status,
                          raised |-> RaisesForStatus(status)]
                   /\ d_result' = IF RaisesForStatus(status)
                                  THEN "HTTPError" ELSE "ok"
              ELSE /\ d_result' = out.kind
                   /\ UNCHANGED <<n_requests, last_request>>
    /\ UNCHANGED <<rlVars, api_key, api_key_in_query, id_token, last_stored,
                   overwrote, call_op, call_kwargs, pVars, sVars,
                   iVars, uVars>>

NextCall == \E st \in Statuses : PubApiCall(st)

SpecCall == InitCall /\ [][NextCall]_vars

CallDone == call_result # NoCall
KnownOp == call_op \in DOMAIN Operations
DeclaredPath == ParamNames(Operations[call_op], "path")
DeclaredNames ==
    ParamNames(Operations[call_op], "path")
        \cup ParamNames(Operations[call_op], "query")
        \cup ParamNames(Operations[call_op], "header")

\* C5: when the arguments omit at least one declared path parameter, call
\* fails with the missing-parameter error naming exactly the declared path
\* parameters absent from the arguments, whatever else was supplied.
C5_MissingReportsExactSet ==
    (CallDone /\ KnownOp /\ DeclaredPath \ (DOMAIN call_kwargs) # {}) =>
        /\ call_result.kind = "MissingParameter"
        /\ call_result.names = DeclaredPath \ (DOMAIN call_kwargs)

\* C5 witness: one of two path parameters is missing while a recognized query
\* parameter, a body carrier and an unrecognized name are supplied.
C5_Witness ==
    /\ CallDone
    /\ call_op = "getDoc"
    /\ DOMAIN call_kwargs = {"docId", "page", "foo", "json"}
    /\ call_result = [kind |-> "MissingParameter", names |-> {"emilId"}]

\* the body carriers an operation accepts: json and data, and body when the
\* operation declares a request body
AcceptedCarriers(op) == {"json", "data"} \cup (IF op.requestBody THEN {"body"} ELSE {})
Unrecognized ==
    (DOMAIN call_kwargs) \ (DeclaredNames \cup AcceptedCarriers(Operations[call_op]))

BodyConsumed ==
    /\ Operations[call_op].requestBody
    /\ PopValue(call_kwargs, "json") = NoneV
    /\ PopValue(call_kwargs, "data") = NoneV
Leftover ==
    (DOMAIN call_kwargs)
        \ (DeclaredNames \cup {"json", "data"}
             \cup (IF BodyConsumed THEN {"body"} ELSE {}))

Supplied(c) == Has(call_kwargs, c) /\ call_kwargs[c] # NoneV

\* C16: for an operation that declares no request body, call rejects every
\* supplied body value (json, data or body) and sends no request with a body.
C16_BodyOnlyForBodyOperations ==
    (CallDone /\ KnownOp /\ ~Operations[call_op].requestBody) =>
        /\ (\E c \in Carriers : Supplied(c)) =>
              call_result.kind \in {"MissingParameter", "UnexpectedParameter"}
        /\ call_result.kind = "request" =>
              /\ last_request.json = NoneV
              /\ last_request.data = NoneV

\* the part of C16 that the code keeps: the carrier named body is rejected for
\* an operation without a request body
BodyKeywordRejected ==
    (CallDone /\ KnownOp /\ ~Operations[call_op].requestBody
        /\ Has(call_kwargs, "body")) =>
        call_result.kind \in {"MissingParameter", "UnexpectedParameter"}

ValidationErrors == {"KeyError", "MissingParameter", "UnexpectedParameter"}

\* C22: a call that fails validation (unknown operation id, missing path
\* parameter, unexpected parameter) fails before any transport call: the step
\* leaves the number of requests sent and the latest request as they were.
C22_ValidationFailsBeforeTransport ==
    [][call_result'.kind \in ValidationErrors =>
          (n_requests' = n_requests /\ last_request' = last_request)]_vars

\* C22 witness: a call that supplied every path parameter and a recognized
\* query parameter failed on an unexpected name, and nothing was sent.
C22_Witness ==
    /\ call_op = "getDoc"
    /\ DOMAIN call_kwargs = {"emilId", "docId", "page", "foo"}
    /\ call_result = [kind |-> "UnexpectedParameter", names |-> {"foo"}]
    /\ n_requests = 0
    /\ last_request = NoRequest

\* ------------------------------------- PubApiClient.call: the path it builds

MaxValueLen == 2

\* a path parameter value is a string, here a sequence of characters: a plain
\* character and the characters that delimit the parts of a URL
UrlChars == {"a", "/", "?", "#"}
PathValues == UNION {[1..n -> UrlChars] : n \in 1..MaxValueLen}
PathOps == {"getEmilId", "getDoc"}

InitPath ==
    /\ rate_limit_per_minute = 0
    /\ rate_limit_window_seconds = 1
    /\ clock = 0
    /\ rate_limit_lock = 0
    /\ rate_limit_timestamps = <<>>
    /\ rl_pc = [t \in Threads |-> "idle"]
    /\ rl_now = [t \in Threads |-> 0]
    /\ rl_sleep_for = [t \in Threads |-> 0]
    /\ rl_wake = [t \in Threads |-> 0]
    /\ rl_slept = [t \in Threads |-> FALSE]
    /\ rl_calls = 0
    /\ admitted = <<>>
    /\ DispatchIdle
    /\ call_op \in PathOps
    /\ call_kwargs \in [ParamNames(Operations[call_op], "path") -> PathValues]
    /\ call_result = NoCall
    /\ PagesIdle
    /\ SyncIdle
    /\ IndexIdle
    /\ RunsIdle

NextPath == \E st \in DispatchStatuses : PubApiCall(st)

SpecPath == InitPath /\ [][NextPath]_vars

\* pubapi_client.py:141 and 101  the characters of the path string that
\* str.format produces and request appends to the base URL: every segment of
\* the template after a "/", a placeholder replaced by the characters of the
\* value as they are
RECURSIVE UrlChain(_, _, _)
UrlChain(template, path, i) ==
    IF i > Len(template) THEN <<>>
    ELSE <<"/">>
           \o (IF template[i] \in {"{emilId}", "{docId}"} THEN path[i] ELSE <<path[i]>>)
           \o UrlChain(template, path, i + 1)

\* how a URL is read: the fragment starts at the first "#", the query at the
\* first "?" before it, the path is what precedes both
RECURSIVE Before(_, _)
Before(u, stops) ==
    IF u = <<>> \/ Head(u) \in stops THEN <<>>
    ELSE <<Head(u)>> \o Before(Tail(u), stops)
UrlPath(u) == Before(u, {"?", "#"})
UrlHasQuery(u) == Len(Before(u, {"?", "#"})) < Len(Before(u, {"#"}))
UrlHasFragment(u) == Len(Before(u, {"#"})) < Len(u)
SegmentCount(p) == Cardinality({i \in DOMAIN p : p[i] = "/"})

RequestedUrl == UrlChain(Operations[call_op].path, last_request.path, 1)

\* C21: whatever a path parameter value contains, the requested path has as
\* many segments as the template and the value adds neither a query string
\* nor a fragment to the URL.
C21_PathKeepsSegmentStructure ==
    (CallDone /\ call_result.kind = "request") =>
        /\ SegmentCount(UrlPath(RequestedUrl)) = Len(Operations[call_op].path)
        /\ ~UrlHasQuery(RequestedUrl)
        /\ ~UrlHasFragment(RequestedUrl)

\* the part of C21 that the code keeps: the same for values that hold none of
\* the characters "/", "?" and "#"
PathKeptForPlainValues ==
    (CallDone /\ call_result.kind = "request"
        /\ \A n \in DOMAIN call_kwargs : \A i \in DOMAIN call_kwargs[n] :
              call_kwargs[n][i] = "a") =>
        /\ SegmentCount(UrlPath(RequestedUrl)) = Len(Operations[call_op].path)
        /\ ~UrlHasQuery(RequestedUrl)
        /\ ~UrlHasFragment(RequestedUrl)

\* ------------------------------------------- PubApiClient._index_operations

\* one key of a path item with the kind of value it holds (an object, a
\* string, a list) and an operation-level field the client does not know
CatalogEntry(e, value, extra) ==
    [path |-> e.path, method |-> e.method, operationId |-> e.operationId,
     parameters |-> e.parameters, requestBody |-> e.requestBody,
     value |-> value, extra |-> extra]

\* a path-level field that is no operation
PathField(path, name, value) ==
    [path |-> path, method |-> name, operationId |-> NoneV, parameters |-> {},
     requestBody |-> FALSE, value |-> value, extra |-> NoneV]

\* the entries catalogs are made of: those of ApiSpec (one of them with an
\* unknown operation-level field), and the path-level fields summary (a
\* string), parameters (a list) and an x- extension holding a string
EntryPool ==
    {CatalogEntry(e, "object",
                  IF e.operationId = "postDownload" THEN "x-codegen" ELSE NoneV) :
        e \in ApiSpec}
      \cup {PathField(<<"version">>, "summary", "string"),
            PathField(<<"archive", "{emilId}">>, "parameters", "list"),
            PathField(<<"status">>, "x-ms-meta", "string")}

\* pubapi_client.py:64  op.get("operationId") needs op to be an object
HasGet(value) == value = "object"

\* pubapi_client.py:57-73  _index_operations: the index, or the error raised
\* by op.get on the first value that is reached and is no object
IndexOutcome(catalog) ==
    IF \E e \in catalog : ~IsExtension(e.method) /\ ~HasGet(e.value)
    THEN [kind |-> "AttributeError", operations |-> EmptyDict]
    ELSE [kind |-> "ok", operations |-> IndexOperations(catalog)]

InitIndex ==
    /\ rate_limit_per_minute = 0
    /\ rate_limit_window_seconds = 1
    /\ clock = 0
    /\ rate_limit_lock = 0
    /\ rate_limit_timestamps = <<>>
    /\ rl_pc = [t \in Threads |-> "idle"]
    /\ rl_now = [t \in Threads |-> 0]
    /\ rl_sleep_for = [t \in Threads |-> 0]
    /\ rl_wake = [t \in Threads |-> 0]
    /\ rl_slept = [t \in Threads |-> FALSE]
    /\ rl_calls = 0
    /\ admitted = <<>>
    /\ DispatchIdle
    /\ CallIdle
    /\ PagesIdle
    /\ SyncIdle
    /\ RunsIdle
    /\ ix_catalog \in SUBSET EntryPool
    /\ ix_result = NoIndex

\* pubapi_client.py:54  self._operations = self._index_operations(spec)
BuildIndex ==
    /\ ix_result = NoIndex
    /\ ix_result' = IndexOutcome(ix_catalog)
    /\ UNCHANGED <<rlVars, dVars, cVars, pVars, sVars, ix_catalog, uVars>>

NextIndex == BuildIndex

SpecIndex == InitIndex /\ [][NextIndex]_vars

\* the entries of a catalog that are operations carrying a non-empty id
IdentifiedOperations(catalog) ==
    {e \in catalog : /\ e.method \in {"get", "post"}
                     /\ e.value = "object"
                     /\ Truthy(e.operationId)}

\* the index holds exactly the given entries, each under its operation id
IndexHolds(operations, entries) ==
    /\ DOMAIN operations = {e.operationId : e \in entries}
    /\ \A e \in entries :
          operations[e.operationId] =
              [method |-> Upper(e.method), path |-> e.path,
               parameters |-> e.parameters, requestBody |-> e.requestBody]

\* C20: for every catalog the index is built without error and holds exactly
\* the (path, method) entries that carry a non-empty operationId, keyed by
\* that id; entries without an id and unknown or extension fields at path or
\* operation level, whatever their name and value, are ignored.
C20_IndexExactForEveryCatalog ==
    ix_result # NoIndex =>
        /\ ix_result.kind = "ok"
        /\ IndexHolds(ix_result.operations, IdentifiedOperations(ix_catalog))

\* the part of C20 that the code keeps: the same for catalogs whose
\* path-level fields that are no operations all have names starting with x-
IndexExactWithoutForeignFields ==
    (ix_result # NoIndex
        /\ \A e \in ix_catalog : e.method \in {"get", "post", "x-ms-meta"}) =>
        /\ ix_result.kind = "ok"
        /\ IndexHolds(ix_result.operations, IdentifiedOperations(ix_catalog))

\* ------------------------------------------------------ iter_report_pages

MaxCap == 3
MaxPage == 3
MaxMeta == 2

\* the _meta object of a payload; a missing _meta reads as NoMeta (client.py:277)
OptInt == {<<>>} \cup {<<n>> : n \in 0..MaxMeta}
Metas == [totalPages : OptInt, currentPage : OptInt]
PageSizes == {1, 1000}
PageStatuses == {200, 500}

\* client.py:275  max_pages is not None and fetched >= max_pages
CapReachedLate(cap, n) == cap # <<>> /\ n > cap[1]
CapReached(cap, n) == cap # <<>> /\ n >= cap[1]

\* client.py:278-283  no pagination info, or this was the last page
LastPage(meta) ==
    \/ meta.totalPages = <<>>
    \/ meta.currentPage = <<>>
    \/ meta.currentPage[1] + 1 >= meta.totalPages[1]

\* client.py:269-271  merged_params
MergedParamsFirstPage(params, pg, size) == Put(Put(params, "page", 0), "size", size)
MergedParams(params, pg, size) == Put(Put(params, "page", pg), "size", size)

InitPages ==
    /\ rate_limit_per_minute \in 0..MaxLimit
    /\ rate_limit_window_seconds \in 1..MaxWindow
    /\ clock = 0
    /\ rate_limit_lock = 0
    /\ rate_limit_timestamps = <<>>
    /\ rl_pc = [t \in Threads |-> "idle"]
    /\ rl_now = [t \in Threads |-> 0]
    /\ rl_sleep_for = [t \in Threads |-> 0]
    /\ rl_wake = [t \in Threads |-> 0]
    /\ rl_slept = [t \in Threads |-> FALSE]
    /\ rl_calls = 0
    /\ admitted = <<>>
    /\ api_key = "abc123"
    /\ api_key_in_query \in BOOLEAN
    /\ id_token = NoneV
    /\ last_stored = NoneV
    /\ overwrote = FALSE
    /\ n_requests = 0
    /\ last_request = NoRequest
    /\ d_result = "none"
    /\ CallIdle
    /\ pg_params \in CallerParams
    /\ page_size \in PageSizes
    /\ max_pages \in {<<>>} \cup {<<n>> : n \in 0..MaxCap}
    /\ pg_pc = "created"
    /\ page = 0
    /\ fetched = 0
    /\ pg_data = NoMeta
    /\ pg_log = <<>>
    /\ SyncIdle
    /\ IndexIdle
    /\ RunsIdle

\* client.py:269-273  one turn of the loop up to the yield: the request for
\* the given page, which raises out of the generator or yields the payload
PagesFetch(pg, status, meta) ==
    /\ RequestEffect("GET", <<"rpt">>, MergedParams(pg_params, pg, page_size),
                     NoneV, <<>>, status)
    /\ page' = pg
    /\ IF RaisesForStatus(status)
       THEN /\ pg_pc' = "raised"
            /\ UNCHANGED <<pg_data, pg_log>>
       ELSE /\ pg_pc' = "suspended"
            /\ pg_data' = meta
            /\ pg_log' = Append(pg_log, meta)

\* first next() on the generator: client.py:266-273
PagesStart(status, meta) ==
    /\ pg_pc = "created"
    /\ PagesFetch(0, status, meta)
    /\ UNCHANGED <<pg_params, page_size, max_pages, fetched, cVars, sVars, iVars, uVars>>

\* a later next(): client.py:274-284 and, unless the generator returns, the
\* next turn of the loop up to its yield
PagesResume(status, meta) ==
    /\ pg_pc = "suspended"
    /\ page < MaxPage
    /\ fetched' = fetched + 1
    /\ IF CapReached(max_pages, fetched + 1) \/ LastPage(pg_data)
       THEN /\ pg_pc' = "done"
            /\ UNCHANGED <<rlVars, dVars, page, pg_data, pg_log>>
       ELSE PagesFetch(page + 1, status, meta)
    /\ UNCHANGED <<pg_params, page_size, max_pages, cVars, sVars, iVars, uVars>>

NextPages ==
    \/ \E st \in PageStatuses, m \in Metas : PagesStart(st, m)
    \/ \E st \in PageStatuses, m \in Metas : PagesResume(st, m)

SpecPages == InitPages /\ [][NextPages]_vars

\* C7: with a cap, never more than maxPages pages are requested or yielded and
\* exactly maxPages when the cap ends the sequence; without a cap the sequence
\* ends right after the first page whose metadata lacks totalPages or
\* currentPage or has currentPage + 1 >= totalPages, with no further request.
C7_PagesStopAtCapOrLastPage ==
    /\ max_pages # <<>> =>
          /\ n_requests <= max_pages[1]
          /\ Len(pg_log) <= max_pages[1]
          /\ (pg_pc = "done" /\ ~LastPage(pg_data)) => Len(pg_log) = max_pages[1]
    /\ max_pages = <<>> =>
          /\ \A i \in DOMAIN pg_log : i < Len(pg_log) => ~LastPage(pg_log[i])
          /\ pg_pc = "done" => LastPage(pg_log[Len(pg_log)])
    /\ n_requests = Len(pg_log) + (IF pg_pc = "raised" THEN 1 ELSE 0)

\* the part of C7 that the code keeps: the same for caps of at least 1
PagesStopForPositiveCap ==
    (max_pages # <<>> /\ max_pages[1] = 0) \/ C7_PagesStopAtCapOrLastPage

\* client.py:263-267  iter_report_pages is called again with the same
\* arguments: a new generator, whose body has not started; the earlier
\* generator is dropped wherever it stood
PagesNew ==
    /\ pg_pc \in {"suspended", "done", "raised"}
    /\ n_requests < MaxPage
    /\ pg_pc' = "created"
    /\ page' = 0
    /\ fetched' = 0
    /\ pg_data' = NoMeta
    /\ pg_log' = <<>>
    /\ UNCHANGED <<pg_params, page_size, max_pages, rlVars, dVars, cVars, sVars, iVars, uVars>>

\* the two kinds of payload: one without pagination info, one that announces
\* pages beyond every page index reached
RestartMetas == {NoMeta, [totalPages |-> <<MaxPage + 2>>, currentPage |-> <<0>>]}

NextPagesRestart ==
    \/ \E st \in PageStatuses, m \in RestartMetas : PagesStart(st, m)
    \/ \E st \in PageStatuses, m \in RestartMetas : PagesResume(st, m)
    \/ PagesNew

SpecPagesRestart == InitPages /\ [][NextPagesRestart]_vars

\* the latest request carries the given page index and the page size, over
\* the caller's other parameters
CarriesPage(k) ==
    LET sent == last_request.caller_params
    IN  /\ DOMAIN sent = (DOMAIN pg_params) \cup {"page", "size"}
        /\ sent["page"] = k
        /\ sent["size"] = page_size
        /\ \A n \in (DOMAIN pg_params) \ {"page", "size"} : sent[n] = pg_params[n]

\* C19: the k-th request of a generator carries page = k-1 and size = pageSize
\* merged over the caller's parameters; payloads are yielded in that order;
\* the request for a page is sent only when the consumer resumes the generator
\* after the payload of the page before it was yielded; a new call starts
\* again at page 0.
C19_PagesInOrderLazyFromZero ==
    /\ pg_pc = "created" => (page = 0 /\ fetched = 0 /\ pg_log = <<>>)
    /\ pg_pc = "suspended" =>
          /\ page = Len(pg_log) - 1
          /\ fetched = Len(pg_log) - 1
          /\ CarriesPage(Len(pg_log) - 1)
    /\ pg_pc = "raised" => (page = Len(pg_log) /\ CarriesPage(Len(pg_log)))
    /\ pg_pc = "done" => page = Len(pg_log) - 1

\* C19 witness: a second generator, created after the first one had sent
\* requests, is suspended at the yield of its second page; the caller's own
\* page parameter was replaced.
C19_Witness ==
    /\ pg_pc = "suspended"
    /\ Len(pg_log) = 2
    /\ n_requests > 3
    /\ Has(pg_params, "page")
    /\ last_request.caller_params["page"] = 1

\* --------------------------------------------------------- update_archive

\* client.py:289  max_retry = 3
max_retry == 3

\* the bytes returned by download_bundle: not a ZIP at all, or an outer ZIP
\* whose members are inner ZIPs holding one file, or members that are no ZIP
MemberNames == {"a.zip", "b.zip"}
InnerFiles == {"x.csv", "y.csv"}
MemberContents ==
    {[zip |-> TRUE, file |-> f] : f \in InnerFiles} \cup {[zip |-> FALSE, file |-> NoneV]}
Payloads ==
    {[kind |-> "corrupt", members |-> EmptyDict]}
        \cup {[kind |-> "zip", members |-> m] :
                m \in UNION {[S -> MemberContents] : S \in SUBSET MemberNames}}
SyncStatuses == {200, 500}

\* os.listdir returns the entries in arbitrary order
ListdirOrders(names) ==
    {q \in [1..Cardinality(names) -> names] : \A n \in names : \E i \in DOMAIN q : q[i] = n}

\* directories left by earlier runs: none, or a complete one
OldDirs == {NoDir, [exists |-> TRUE, files |-> {"x.csv"}]}

\* client.py:300-301  extractall of the outer archive into the new directory
ExtractOuter(payload) == DOMAIN payload.members

\* client.py:302-306  every listed file is opened as a ZIP and extracted in
\* place (a file of the same name is replaced); a file that is no ZIP raises
\* and ends the attempt
RECURSIVE ExtractInner(_, _, _, _)
ExtractInner(files, order, k, members) ==
    IF k > Len(order) THEN [ok |-> TRUE, files |-> files]
    ELSE IF ~members[order[k]].zip THEN [ok |-> FALSE, files |-> files]
    ELSE ExtractInner(files \cup {members[order[k]].file}, order, k + 1, members)

\* client.py:307-309  glob.glob(f"{save_dir}/*.zip") and os.remove
GlobZip(name) == name \in {"a.zip", "b.zip"}
RemoveNoZips(files) == files
RemoveZips(files) == {f \in files : ~GlobZip(f)}

\* client.py:300-310  what a created directory holds after the attempt
Extract(payload, order) ==
    IF payload.kind = "corrupt" THEN [ok |-> FALSE, files |-> {}]
    ELSE LET r == ExtractInner(ExtractOuter(payload), order, 1, payload.members)
         IN  IF r.ok THEN [ok |-> TRUE, files |-> RemoveZips(r.files)] ELSE r

\* client.py:314  the bare `except:` catches the failure of every step
CatchesDownloadOnly(step) == step = "download"
Catches(step) == TRUE

\* client.py:315  if retry<max_retry
CanRetryTwiceMore(r) == r < max_retry + 2
CanRetryOnceMore(r) == r <= max_retry
CanRetry(r) == r < max_retry

InitSync ==
    /\ rate_limit_per_minute \in {0, 1}
    /\ rate_limit_window_seconds = 1
    /\ clock = 0
    /\ rate_limit_lock = 0
    /\ rate_limit_timestamps = <<>>
    /\ rl_pc = [t \in Threads |-> "idle"]
    /\ rl_now = [t \in Threads |-> 0]
    /\ rl_sleep_for = [t \in Threads |-> 0]
    /\ rl_wake = [t \in Threads |-> 0]
    /\ rl_slept = [t \in Threads |-> FALSE]
    /\ rl_calls = 0
    /\ admitted = <<>>
    /\ api_key = "abc123"
    /\ api_key_in_query = FALSE
    /\ id_token = NoneV
    /\ last_stored = NoneV
    /\ overwrote = FALSE
    /\ n_requests = 0
    /\ last_request = NoRequest
    /\ d_result = "none"
    /\ CallIdle
    /\ PagesIdle
    /\ sy_pc = "start"
    /\ listing = <<>>
    /\ idx = 0
    /\ retry = 0
    /\ fs \in [DocIds -> OldDirs]
    /\ fs0 = fs
    /\ outcome = <<>>
    /\ cur = NoItem
    /\ settled = NoSettled
    /\ last_attempt = NoAttempt
    /\ IndexIdle
    /\ RunsIdle

\* client.py:287-288  the listing request and the ids of its bundles
SyncList(status, n) ==
    /\ sy_pc = "start"
    /\ RequestEffect("GET", <<"bundle", "np4-33-cd">>, EmptyDict, NoneV, <<>>, status)
    /\ IF RaisesForStatus(status)
       THEN /\ sy_pc' = "raised"
            /\ UNCHANGED <<listing, idx, outcome, cur>>
       ELSE /\ listing' = [i \in 1..n |-> i]
            /\ outcome' = [i \in 1..n |-> "pending"]
            /\ cur' = IF n = 0 THEN NoItem
                      ELSE [NoItem EXCEPT !.pre_exists = fs[1].exists]
            /\ idx' = IF n = 0 THEN 0 ELSE 1
            /\ sy_pc' = IF n = 0 THEN "finished" ELSE "item"
    /\ UNCHANGED <<retry, fs, fs0, settled, last_attempt, cVars, pVars, iVars, uVars>>

\* client.py:290-292  the for loop moves to the next report_id, or ends
NextItem(newfs) ==
    /\ retry' = 0
    /\ idx' = IF idx = Len(listing) THEN idx ELSE idx + 1
    /\ sy_pc' = IF idx = Len(listing) THEN "finished" ELSE "item"
    /\ cur' = IF idx = Len(listing) THEN NoItem
              ELSE [NoItem EXCEPT !.pre_exists = newfs[listing[idx + 1]].exists]

\* the attempts of the current item, one more made
Counted(step) ==
    [attempts |-> cur.attempts + 1,
     dl_failed |-> cur.dl_failed + (IF step = "download" THEN 1 ELSE 0),
     other_failed |-> (cur.other_failed \/ step \in {"mkdir", "extract"}),
     pre_exists |-> cur.pre_exists]

Settle(c, result) ==
    [i |-> idx, attempts |-> c.attempts, dl_failed |-> c.dl_failed,
     other_failed |-> c.other_failed, pre_exists |-> c.pre_exists,
     outcome |-> result]

\* client.py:314-319  the except branch: retry, or break out of the while
AttemptFails(id, step, newfs) ==
    /\ fs' = newfs
    /\ last_attempt' = [id |-> id, result |-> step, payload |-> NoPayload]
    /\ IF ~Catches(step)
       THEN /\ sy_pc' = "raised"
            /\ UNCHANGED <<idx, retry, outcome, cur, settled>>
       ELSE IF CanRetry(retry)
       THEN /\ retry' = retry + 1
            /\ cur' = Counted(step)
            /\ UNCHANGED <<idx, sy_pc, outcome, settled>>
       ELSE /\ outcome' = [outcome EXCEPT ![idx] = "failed"]
            /\ settled' = Settle(Counted(step), "failed")
            /\ NextItem(newfs)

\* client.py:312-313 and 310-313  done = True: already present, or extracted
AttemptDone(id, result, newfs, payload) ==
    /\ fs' = newfs
    /\ last_attempt' = [id |-> id, result |-> result, payload |-> payload]
    /\ outcome' = [outcome EXCEPT ![idx] = result]
    /\ settled' = Settle(Counted(result), result)
    /\ NextItem(newfs)

\* client.py:293-319  one pass through the body of `while not done`
SyncAttempt ==
    /\ sy_pc = "item"
    /\ LET id == listing[idx]
       IN  \E status \in SyncStatuses :
             /\ RequestEffect("POST", <<"bundle", "np4-33-cd", "download">>,
                              EmptyDict, "docIds", <<id>>, status)
             /\ IF RaisesForStatus(status)
                THEN AttemptFails(id, "download", fs)
                ELSE IF fs[id].exists
                THEN AttemptDone(id, "present", fs, NoPayload)
                ELSE \E mkdir_ok \in BOOLEAN :
                       IF ~mkdir_ok
                       THEN AttemptFails(id, "mkdir", fs)
                       ELSE \E payload \in Payloads :
                            \E order \in ListdirOrders(DOMAIN payload.members) :
                              LET r == Extract(payload, order)
                                  newfs == [fs EXCEPT ![id] =
                                               [exists |-> TRUE, files |-> r.files]]
                              IN  IF r.ok
                                  THEN AttemptDone(id, "extracted", newfs, payload)
                                  ELSE AttemptFails(id, "extract", newfs)
    /\ UNCHANGED <<listing, fs0, cVars, pVars, iVars, uVars>>

NextSync ==
    \/ \E st \in SyncStatuses, n \in 0..MaxDocs : SyncList(st, n)
    \/ SyncAttempt

SpecSync == InitSync /\ [][NextSync]_vars

AllListedPresent ==
    /\ sy_pc \in {"item", "finished"}
    /\ listing # <<>>
    /\ \A i \in DOMAIN listing : fs0[listing[i]].exists

\* C9: when every listed document already has its directory, the run sends
\* the listing request only, treats every item as already present and leaves
\* the directories as they were.
C9_NoDownloadWhenAllPresent ==
    AllListedPresent =>
        /\ n_requests = 1
        /\ \A i \in DOMAIN outcome : outcome[i] \in {"pending", "present"}
        /\ fs = fs0

TwoLevel(payload) ==
    /\ payload.kind = "zip"
    /\ \A m \in DOMAIN payload.members : payload.members[m].zip
InnerFilesOf(payload) == {payload.members[m].file : m \in DOMAIN payload.members}
DistinctInnerNames(payload) ==
    \A m1, m2 \in DOMAIN payload.members :
        payload.members[m1].file = payload.members[m2].file => m1 = m2

\* C10 as stated: after a successful extraction of a two-level payload with N
\* inner ZIP members of one file each, the directory holds exactly the N inner
\* files and no .zip file.
C10_ExactlyNInnerFiles ==
    (last_attempt.result = "extracted" /\ TwoLevel(last_attempt.payload)) =>
        LET dir == fs[last_attempt.id].files
        IN  /\ Cardinality(dir) = Cardinality(DOMAIN last_attempt.payload.members)
            /\ dir = InnerFilesOf(last_attempt.payload)
            /\ \A f \in dir : ~GlobZip(f)

\* C10 (amended): the same when the N inner files have pairwise different names.
C10_ExactlyNDistinctInnerFiles ==
    (last_attempt.result = "extracted" /\ TwoLevel(last_attempt.payload)
        /\ DistinctInnerNames(last_attempt.payload)) =>
        LET dir == fs[last_attempt.id].files
        IN  /\ Cardinality(dir) = Cardinality(DOMAIN last_attempt.payload.members)
            /\ dir = InnerFilesOf(last_attempt.payload)
            /\ \A f \in dir : ~GlobZip(f)

\* C10 witness: a payload of two inner ZIPs with different files was extracted.
C10_Witness ==
    /\ last_attempt.result = "extracted"
    /\ DOMAIN last_attempt.payload.members = {"a.zip", "b.zip"}
    /\ DistinctInnerNames(last_attempt.payload)
    /\ Cardinality(fs[last_attempt.id].files) = 2

\* C17 as stated: an id whose directory does not exist gets at most max_retry
\* attempts (download calls), and the attempt counter starts from zero for
\* each id whatever happened to the ids before it.
C17_AtMostMaxRetryAttempts ==
    /\ (settled.i # 0 /\ ~settled.pre_exists) => settled.attempts <= max_retry
    /\ ~cur.pre_exists => cur.attempts <= max_retry
    /\ sy_pc = "item" => retry = cur.attempts

\* C17 (amended): every listed id gets at most 1 + max_retry attempts (one
\* initial attempt and max_retry retries), and the attempt counter starts from
\* zero for each id whatever happened to the ids before it: it always equals
\* the number of failed attempts made for the id in progress.
C17_AtMostOnePlusMaxRetryAttempts ==
    /\ settled.i # 0 => settled.attempts <= 1 + max_retry
    /\ cur.attempts <= max_retry
    /\ sy_pc = "item" => retry = cur.attempts
    /\ n_requests <= 1 + Len(listing) * (1 + max_retry)

\* C17 witness: the first id was given up after 1 + max_retry attempts and
\* the second id was then attempted 1 + max_retry times as well.
C17_Witness ==
    /\ Len(listing) = 2
    /\ outcome[1] = "failed"
    /\ settled.i = 2
    /\ ~settled.pre_exists
    /\ settled.attempts = 1 + max_retry
    /\ n_requests = 1 + 2 * (1 + max_retry)

\* C18: an id whose directory was absent when the run started is treated as
\* done only when one of its attempts completed the extraction and the removal
\* of the inner ZIPs; it is never found already present because a failed
\* attempt of the same run left its directory behind.
C18_DoneOnlyAfterCompleteExtraction ==
    /\ \A i \in DOMAIN outcome :
          ~fs0[listing[i]].exists => outcome[i] \in {"pending", "extracted", "failed"}
    /\ (settled.i # 0 /\ ~settled.pre_exists /\ settled.outcome # "failed") =>
          /\ settled.outcome = "extracted"
          /\ last_attempt.result = "extracted"

\* the listing request of update_archive was answered with an error status
ListingFailed ==
    /\ last_request.method = "GET"
    /\ last_request.path = <<"bundle", "np4-33-cd">>
    /\ last_request.status >= 400

\* C13: update_archive ends with a raised error exactly when the listing
\* request fails, and then no download was attempted; once the listing has
\* been read, no failure of a download, of the directory creation or of the
\* extraction leaves update_archive.
C13_RaisesIffListingFails ==
    /\ (sy_pc = "raised") <=> ListingFailed
    /\ sy_pc = "raised" =>
          /\ n_requests = 1
          /\ last_attempt = NoAttempt
          /\ fs = fs0
    /\ last_attempt.result \in {"download", "mkdir", "extract"} =>
          sy_pc \in {"item", "finished"}

\* C13 witness: the run has finished although the directory creation failed
\* for the first item on every attempt and the extraction failed for the second.
C13_Witness ==
    /\ sy_pc = "finished"
    /\ Len(listing) = 2
    /\ outcome[1] = "failed"
    /\ ~fs[1].exists
    /\ last_attempt = [id |-> 2, result |-> "extract", payload |-> NoPayload]
    /\ settled.other_failed

\* ------------------------------------- two concurrent runs of update_archive

\* Two runs of update_archive for one product share the directories on disk
\* and nothing else: each has its own position, retry counter and downloaded
\* bytes.  The limiter is disabled, so a download changes no client state.
\* Each step below is one system call or library call of the try block; the
\* runs interleave between the steps.

\* the archives the server hands out: bytes that are no ZIP, or an archive
\* with one member, an inner ZIP or a file that is none
RacePayloads ==
    {p \in Payloads : p.kind = "zip" => /\ DOMAIN p.members = {"a.zip"}
                                        /\ p.members["a.zip"].file # "y.csv"}

\* client.py:299  os.mkdir raises FileExistsError when the path exists
MkdirNeverRefuses(dir) == FALSE
MkdirRefuses(dir) == dir.exists

\* both runs have read the same listing and stand before its first item; the
\* first document may have been archived by an earlier run
InitRace ==
    /\ rate_limit_per_minute = 0
    /\ rate_limit_window_seconds = 1
    /\ clock = 0
    /\ rate_limit_lock = 0
    /\ rate_limit_timestamps = <<>>
    /\ rl_pc = [t \in Threads |-> "idle"]
    /\ rl_now = [t \in Threads |-> 0]
    /\ rl_sleep_for = [t \in Threads |-> 0]
    /\ rl_wake = [t \in Threads |-> 0]
    /\ rl_slept = [t \in Threads |-> FALSE]
    /\ rl_calls = 0
    /\ admitted = <<>>
    /\ DispatchIdle
    /\ CallIdle
    /\ PagesIdle
    /\ IndexIdle
    /\ sy_pc = "none"
    /\ listing = [i \in 1..MaxDocs |-> i]
    /\ idx = 0
    /\ retry = 0
    /\ fs \in {f \in [DocIds -> OldDirs] : \A d \in DocIds : d > 1 => f[d] = NoDir}
    /\ fs0 = fs
    /\ outcome = <<>>
    /\ cur = NoItem
    /\ settled = NoSettled
    /\ last_attempt = NoAttempt
    /\ run_pc = [r \in Runs |-> "download"]
    /\ run_idx = [r \in Runs |-> 1]
    /\ run_retry = [r \in Runs |-> 0]
    /\ race_log = [d \in DocIds |-> [made |-> {}, refused |-> {}, extracted |-> {}]]

raceFrame == <<rlVars, dVars, cVars, pVars, iVars, sy_pc, listing, idx, retry, fs0,
               outcome, cur, settled, last_attempt>>

\* client.py:295  zip = self.download_bundle(product_id, [report_id])
RaceDownload(r) ==
    /\ run_pc[r] = "download"
    /\ \E status \in SyncStatuses :
          run_pc' = [run_pc EXCEPT ![r] =
                       IF RaisesForStatus(status) THEN "except" ELSE "exists"]
    /\ UNCHANGED <<raceFrame, fs, run_idx, run_retry, race_log>>

\* client.py:298  if not os.path.exists(save_dir); 311-313 else: done = True
RaceExists(r) ==
    /\ run_pc[r] = "exists"
    /\ run_pc' = [run_pc EXCEPT ![r] =
                     IF fs[listing[run_idx[r]]].exists THEN "advance" ELSE "mkdir"]
    /\ UNCHANGED <<raceFrame, fs, run_idx, run_retry, race_log>>

\* client.py:299  os.mkdir(save_dir): refused when the directory has appeared
\* since the test, or failing for another reason, or creating it empty
RaceMkdir(r) ==
    /\ run_pc[r] = "mkdir"
    /\ LET id == listing[run_idx[r]]
       IN  IF MkdirRefuses(fs[id])
           THEN /\ run_pc' = [run_pc EXCEPT ![r] = "except"]
                /\ race_log' = [race_log EXCEPT ![id].refused = @ \cup {r}]
                /\ UNCHANGED fs
           ELSE \E mkdir_ok \in BOOLEAN :
                  IF mkdir_ok
                  THEN /\ fs' = [fs EXCEPT ![id] = [exists |-> TRUE, files |-> fs[id].files]]
                       /\ race_log' = [race_log EXCEPT ![id].made = @ \cup {r}]
                       /\ run_pc' = [run_pc EXCEPT ![r] = "extract"]
                  ELSE /\ run_pc' = [run_pc EXCEPT ![r] = "except"]
                       /\ UNCHANGED <<fs, race_log>>
    /\ UNCHANGED <<raceFrame, run_idx, run_retry>>

\* client.py:300-310  extractall of the outer archive, extraction of every
\* listed file in place, removal of the *.zip files; done = True at the end
RaceExtract(r) ==
    /\ run_pc[r] = "extract"
    /\ LET id == listing[run_idx[r]]
       IN  \E payload \in RacePayloads :
           \E order \in ListdirOrders(DOMAIN payload.members) :
             LET x == Extract(payload, order)
                 all == fs[id].files \cup x.files
             IN  /\ fs' = [fs EXCEPT ![id].files =
                                 IF x.ok THEN RemoveZips(all) ELSE all]
                 /\ race_log' = [race_log EXCEPT ![id].extracted =
                                 IF payload.kind = "zip" THEN @ \cup {r} ELSE @]
                 /\ run_pc' = [run_pc EXCEPT ![r] =
                                 IF x.ok THEN "advance" ELSE "except"]
    /\ UNCHANGED <<raceFrame, run_idx, run_retry>>

\* client.py:314-319  the except branch: retry, or break out of the while
RaceExcept(r) ==
    /\ run_pc[r] = "except"
    /\ IF CanRetry(run_retry[r])
       THEN /\ run_retry' = [run_retry EXCEPT ![r] = @ + 1]
            /\ run_pc' = [run_pc EXCEPT ![r] = "download"]
       ELSE /\ run_pc' = [run_pc EXCEPT ![r] = "advance"]
            /\ UNCHANGED run_retry
    /\ UNCHANGED <<raceFrame, fs, run_idx, race_log>>

\* client.py:290-292  the for loop moves to the next report_id, or ends
RaceAdvance(r) ==
    /\ run_pc[r] = "advance"
    /\ run_retry' = [run_retry EXCEPT ![r] = 0]
    /\ IF run_idx[r] = Len(listing)
       THEN /\ run_pc' = [run_pc EXCEPT ![r] = "finished"]
            /\ UNCHANGED run_idx
       ELSE /\ run_pc' = [run_pc EXCEPT ![r] = "download"]
            /\ run_idx' = [run_idx EXCEPT ![r] = @ + 1]
    /\ UNCHANGED <<raceFrame, fs, race_log>>

NextRace ==
    \/ \E r \in Runs : RaceDownload(r)
    \/ \E r \in Runs : RaceExists(r)
    \/ \E r \in Runs : RaceMkdir(r)
    \/ \E r \in Runs : RaceExtract(r)
    \/ \E r \in Runs : RaceExcept(r)
    \/ \E r \in Runs : RaceAdvance(r)

SpecRace == InitRace /\ [][NextRace]_vars

\* C25: when two runs of update_archive for one product interleave in any
\* way, at most one of them creates a given document's directory, only that
\* run extracts into it, and a run whose mkdir was refused because the other
\* run created the directory first never extracts into it.
C25_OnlyTheCreatorExtracts ==
    \A d \in DocIds :
        /\ Cardinality(race_log[d].made) <= 1
        /\ race_log[d].extracted \subseteq race_log[d].made
        /\ race_log[d].refused \cap race_log[d].made = {}
        /\ race_log[d].made # {} => fs[d].exists

\* C25 witness: both runs found no directory for a document, one created it
\* and extracted into it, the mkdir of the other was refused, and both runs
\* have finished.
C25_Witness ==
    \E d \in DocIds : \E r, q \in Runs :
        /\ r # q
        /\ race_log[d].refused = {r}
        /\ race_log[d].made = {q}
        /\ race_log[d].extracted = {q}
        /\ fs[d].files # {}
        /\ \A u \in Runs : run_pc[u] = "finished"
====
